---- MODULE Spec2Model ----
(***************************************************************************)
(* agni_tf_tools: the Euler-angle editor (rviz::EulerProperty) and the     *)
(* composite rotation editor (agni_tf_tools::RotationProperty).            *)
(*                                                                         *)
(* Numbers.  Rotations are taken from the 24 rotations of the cube, so     *)
(* that all arithmetic is exact: an angle in radians is an integer number  *)
(* of quarter turns (1 = pi/2), an angle in degrees is an integer, and a   *)
(* quaternion coefficient is <<a, b>>, standing for (a + b*sqrt(2))/2.     *)
(* The 48 unit quaternions with such coefficients (the binary octahedral   *)
(* group) are closed under the products the code forms.  A quaternion      *)
(* also carries the precision it was last rounded to, p \in {"d", "f"}     *)
(* (double, float): a coefficient 1/sqrt(2) that went through a float is   *)
(* off by about 3e-8, which a comparison at double tolerance (1e-12) sees  *)
(* and a comparison at float tolerance does not.                           *)
(***************************************************************************)
EXTENDS Integers, Sequences, FiniteSets, TLC

(***************************************************************************)
(* Quaternion arithmetic (Eigen::Quaterniond, Eigen::AngleAxisd)           *)
(***************************************************************************)
Quat(w, x, y, z, p) == [w |-> w, x |-> x, y |-> y, z |-> z, p |-> p]

\* a coefficient that a float holds exactly: 0, +-1/2, +-1
ExactCoeff(c) == c[2] = 0

ExactQuat(q) == ExactCoeff(q.w) /\ ExactCoeff(q.x) /\ ExactCoeff(q.y) /\ ExactCoeff(q.z)

\* 4 * (c1 * c2), as <<rational part, sqrt(2) part>>
CMul(c1, c2) == <<c1[1] * c2[1] + 2 * c1[2] * c2[2], c1[1] * c2[2] + c1[2] * c2[1]>>

CAdd(c1, c2) == <<c1[1] + c2[1], c1[2] + c2[2]>>

CNeg(c) == <<0 - c[1], 0 - c[2]>>

CHalf(c) == <<c[1] \div 2, c[2] \div 2>>

\* Eigen's quaternion product a * b; the result of arithmetic in double
QMul(a, b) ==
    Quat(CHalf(CAdd(CAdd(CMul(a.w, b.w), CNeg(CMul(a.x, b.x))),
                    CAdd(CNeg(CMul(a.y, b.y)), CNeg(CMul(a.z, b.z))))),
         CHalf(CAdd(CAdd(CMul(a.w, b.x), CMul(a.x, b.w)),
                    CAdd(CMul(a.y, b.z), CNeg(CMul(a.z, b.y))))),
         CHalf(CAdd(CAdd(CMul(a.w, b.y), CMul(a.y, b.w)),
                    CAdd(CMul(a.z, b.x), CNeg(CMul(a.x, b.z))))),
         CHalf(CAdd(CAdd(CMul(a.w, b.z), CMul(a.z, b.w)),
                    CAdd(CMul(a.x, b.y), CNeg(CMul(a.y, b.x))))),
         "d")

QNeg(q) == Quat(CNeg(q.w), CNeg(q.x), CNeg(q.y), CNeg(q.z), q.p)

\* cos(k * pi/4) as a coefficient
CosEighth(k) ==
    CASE k % 8 = 0 -> <<2, 0>>
      [] k % 8 = 1 -> <<0, 1>>
      [] k % 8 = 2 -> <<0, 0>>
      [] k % 8 = 3 -> <<0, -1>>
      [] k % 8 = 4 -> <<-2, 0>>
      [] k % 8 = 5 -> <<0, -1>>
      [] k % 8 = 6 -> <<0, 0>>
      [] OTHER     -> <<0, 1>>

SinEighth(k) == CosEighth(k + 6)

\* Eigen::AngleAxisd(angle, Vector3d::Unit(axis)) as a quaternion:
\* (cos(angle/2), sin(angle/2) * axis); angle in quarter turns
AngleAxis(angle, axis) ==
    Quat(CosEighth(angle),
         IF axis = 0 THEN SinEighth(angle) ELSE <<0, 0>>,
         IF axis = 1 THEN SinEighth(angle) ELSE <<0, 0>>,
         IF axis = 2 THEN SinEighth(angle) ELSE <<0, 0>>,
         "d")

\* Eigen isApprox on the four coefficients, at double tolerance (1e-12):
\* q and -q are different values
IsApprox(a, b) ==
    /\ a.w = b.w /\ a.x = b.x /\ a.y = b.y /\ a.z = b.z
    /\ (a.p = b.p \/ ExactQuat(a))

\* isApprox of Eigen::Quaternion<float>, after both sides were cast to float
IsApproxFloat(a, b) == a.w = b.w /\ a.x = b.x /\ a.y = b.y /\ a.z = b.z

\* cast of a double quaternion to float coefficients (Ogre::Real);
\* the cast back to double keeps the rounded value
ToFloat(q) == [q EXCEPT !.p = IF ExactQuat(q) THEN "d" ELSE "f"]

\* 2 * a * b of two coefficients of one quaternion (an integer times 1/2)
Two(c1, c2) == CMul(c1, c2)[1]

\* Eigen's Quaternion::matrix(): rows 0..2 as m[r + 1][c + 1]
Matrix(q) ==
    << << 1 - (Two(q.y, q.y) + Two(q.z, q.z)) \div 2,
          (Two(q.x, q.y) - Two(q.w, q.z)) \div 2,
          (Two(q.x, q.z) + Two(q.w, q.y)) \div 2 >>,
       << (Two(q.x, q.y) + Two(q.w, q.z)) \div 2,
          1 - (Two(q.x, q.x) + Two(q.z, q.z)) \div 2,
          (Two(q.y, q.z) - Two(q.w, q.x)) \div 2 >>,
       << (Two(q.x, q.z) - Two(q.w, q.y)) \div 2,
          (Two(q.y, q.z) + Two(q.w, q.x)) \div 2,
          1 - (Two(q.x, q.x) + Two(q.y, q.y)) \div 2 >> >>

Coeff(m, r, c) == m[r + 1][c + 1]

Abs(n) == IF n < 0 THEN 0 - n ELSE n

\* atan2 in quarter turns, on the axis-aligned arguments that occur
Atan2(y, x) ==
    CASE y = 0 /\ x >= 0 -> 0
      [] y > 0           -> 1
      [] y < 0           -> -1
      [] OTHER           -> 2

\* the norm of a 2-vector with at most one non-zero entry
Norm2(a, b) == Abs(a) + Abs(b)

ISin(k) == CASE k % 4 = 1 -> 1 [] k % 4 = 3 -> -1 [] OTHER -> 0

ICos(k) == CASE k % 4 = 0 -> 1 [] k % 4 = 2 -> -1 [] OTHER -> 0

\* Eigen's MatrixBase::eulerAngles(a0, a1, a2), in quarter turns
EulerAnglesOf(m, a0, a1, a2) ==
    LET odd == IF (a0 + 1) % 3 = a1 THEN 0 ELSE 1
        i == a0
        j == (a0 + 1 + odd) % 3
        k == (a0 + 2 - odd) % 3
        first == IF a0 = a2 THEN Atan2(Coeff(m, j, i), Coeff(m, k, i))
                            ELSE Atan2(Coeff(m, j, k), Coeff(m, k, k))
        flip == (odd = 1 /\ first < 0) \/ (odd = 0 /\ first > 0)
        r0 == IF flip THEN (IF first > 0 THEN first - 2 ELSE first + 2) ELSE first
        s2 == Norm2(Coeff(m, j, i), Coeff(m, k, i))
        c2 == Norm2(Coeff(m, i, i), Coeff(m, i, j))
        r1 == IF a0 = a2
              THEN (IF flip THEN 0 - Atan2(s2, Coeff(m, i, i)) ELSE Atan2(s2, Coeff(m, i, i)))
              ELSE (IF flip THEN Atan2(0 - Coeff(m, i, k), 0 - c2)
                            ELSE Atan2(0 - Coeff(m, i, k), c2))
        s1 == ISin(r0)
        c1 == ICos(r0)
        r2 == IF a0 = a2
              THEN Atan2(c1 * Coeff(m, j, k) - s1 * Coeff(m, k, k),
                         c1 * Coeff(m, j, j) - s1 * Coeff(m, k, j))
              ELSE Atan2(s1 * Coeff(m, k, i) - c1 * Coeff(m, j, i),
                         c1 * Coeff(m, j, j) - s1 * Coeff(m, k, j))
    IN  IF odd = 0 THEN <<0 - r0, 0 - r1, 0 - r2>> ELSE <<r0, r1, r2>>

(***************************************************************************)
(* Bounds and inputs                                                       *)
(***************************************************************************)
\* the number of operations performed on the editors after construction
MaxOps == 2

\* the angles users type, in quarter turns: 0, 90 and 180 degrees
AngleInputs == {0, 1, 2}

\* the angle triples (radians, in quarter turns) that callers pass
AngleTriples == { <<0, 0, 0>>, <<1, 0, 0>>, <<0, 1, 0>>, <<2, 1, 0>> }

NoQuat == Quat(<<0, 0>>, <<0, 0>>, <<0, 0>>, <<0, 0>>, "d")

Identity == Quat(<<2, 0>>, <<0, 0>>, <<0, 0>>, <<0, 0>>, "d")

\* the unit quaternions that callers pass (double precision)
QInputs ==
    { Identity,
      QNeg(Identity),
      AngleAxis(1, 0),
      QNeg(AngleAxis(1, 2)),
      QMul(AngleAxis(1, 0), AngleAxis(1, 1)) }

\* strings are sequences of characters
ValidAxesInputs ==
    { <<"r", "p", "y">>, <<"s", "x", "y", "z">>, <<"x", "y", "z">>, <<"r", "y", "x", "z">> }

InvalidAxesInputs ==
    { <<>>, <<"x", "y">>, <<"x", "x", "z">>, <<"x", "y", "q">>, <<"q", "y", "z">> }

AxesInputs == ValidAxesInputs \cup InvalidAxesInputs

(***************************************************************************)
(* The two editors as one record m that the handlers pass along.           *)
(*   EulerProperty:    quaternion_, axes_string_, fixed_, axes_, euler_    *)
(*                     (the three FloatProperty values, in degrees),       *)
(*                     ignore_child_updates_, value_ (the summary text)    *)
(*   RotationProperty: quaternion_property_ (the value of the quaternion   *)
(*                     field), rot_ignore_child_updates_,                  *)
(*                     show_euler_string_, string_ (its own value_)        *)
(*   connected: the constructors' connect() calls have run                 *)
(*   log: the signals emitted, the fields assigned and the handlers        *)
(*        entered during the operation, in order                           *)
(*   thrown: the exception in flight; ret: the value returned              *)
(***************************************************************************)
NoThrow == [kind |-> "none", ch |-> ""]

Throw(m, kind, ch) == [m EXCEPT !.thrown = [kind |-> kind, ch |-> ch]]

Emit(m, name, q) == [m EXCEPT !.log = Append(@, [e |-> name, q |-> q])]

Note(m, name) == Emit(m, name, NoQuat)

\* the angle stored as it comes, without angles::to_degrees
ToDegrees_omitted(r) == r

\* angles::to_degrees / angles::from_degrees on quarter turns
ToDegrees(r) == 90 * r

FromDegrees(d) == d \div 90

\* EulerProperty::updateString: "<axes>: <e1>; <e2>; <e3>", one decimal,
\* ".0" removed; the angles are whole degrees here
Euler_updateString(m) ==
    [m EXCEPT !.value_ = [kind |-> "euler", axes |-> m.axes_string_,
                          e |-> m.euler_, q |-> NoQuat]]

\* RotationProperty::updateString
Rotation_updateString(m) ==
    LET euler == m.value_
        quat  == [kind |-> "quat", axes |-> <<>>, e |-> <<0, 0, 0>>,
                  q |-> m.quaternion_property_]
        s     == IF m.show_euler_string_ THEN euler ELSE quat
    IN  IF m.string_ # s
        THEN Note([Note(m, "Rotation::aboutToChange") EXCEPT !.string_ = s],
                  "Rotation::changed")
        ELSE m

\* RotationProperty::updateFromQuaternion, run as the slot of the field's
\* changed() while a handler of the editors is already running.  Past its two
\* early returns it would call setQuaternion from inside that handler: the
\* call is recorded and not followed.
Rotation_updateFromQuaternion_inUpdate(m) ==
    IF m.rot_ignore_child_updates_
    THEN m
    ELSE LET eigen_q == m.quaternion_property_
         IN  IF IsApproxFloat(eigen_q, ToFloat(m.quaternion_))
             THEN m
             ELSE Note(Note(m, "updateFromQuaternion"), "reentered setQuaternion")

\* quaternion_property_->setQuaternion(q) (rviz::QuaternionProperty) as
\* called by RotationProperty: the field changes and signals changed() only
\* when the new value differs
QuaternionProperty_setQuaternion_inUpdate(m, q) ==
    IF q = m.quaternion_property_
    THEN m
    ELSE Rotation_updateFromQuaternion_inUpdate(
             Note([m EXCEPT !.quaternion_property_ = q], "quaternion_property_ assigned"))

\* lines 82-84 of updateFromEuler
MarkEuler(m) ==
    IF m.rot_ignore_child_updates_
    THEN m
    ELSE Rotation_updateString([m EXCEPT !.show_euler_string_ = TRUE])

\* RotationProperty::updateFromEuler, the slot of quaternionChanged
Rotation_updateFromEuler(m, q) ==
    MarkEuler(QuaternionProperty_setQuaternion_inUpdate(Note(m, "updateFromEuler"),
                                                        ToFloat(q)))

\* the quaternion of three angles: lines 91-99 of setEulerAngles
Compose(euler, axes, fixed) ==
    IF fixed
    THEN QMul(QMul(AngleAxis(euler[3], axes[3]), AngleAxis(euler[2], axes[2])),
              AngleAxis(euler[1], axes[1]))
    ELSE QMul(QMul(AngleAxis(euler[1], axes[1]), AngleAxis(euler[2], axes[2])),
              AngleAxis(euler[3], axes[3]))

\* Q_EMIT quaternionChanged(q), delivered to RotationProperty once connected
EmitQuaternionChanged(m, q) ==
    LET m1 == Emit(m, "quaternionChanged", q)
    IN  IF m.connected THEN Rotation_updateFromEuler(m1, q) ELSE m1

\* lines 110-116 of setEulerAngles: store the quaternion and notify
StoreQuaternion(m, q) ==
    LET m1 == Note(m, "aboutToChange")
        m2 == IF ~IsApprox(m1.quaternion_, q)
              THEN EmitQuaternionChanged(
                       Note([m1 EXCEPT !.quaternion_ = q], "quaternion_ assigned"), q)
              ELSE m1
    IN  Note(Euler_updateString(m2), "changed")

\* EulerProperty::emitAboutToChange, the slot of a field's aboutToChange()
Euler_emitAboutToChange(m) ==
    IF m.ignore_child_updates_ THEN m ELSE Note(m, "aboutToChange")

\* updateFromChildren without the test of ignore_child_updates_ at line 201
Euler_updateFromChildren_unguarded(m) ==
    LET euler == <<FromDegrees(m.euler_[1]), FromDegrees(m.euler_[2]),
                   FromDegrees(m.euler_[3])>>
        m1 == Note([m EXCEPT !.ignore_child_updates_ = TRUE], "updateFromChildren")
        m3 == StoreQuaternion(m1, Compose(euler, m1.axes_, m1.fixed_))
    IN  [m3 EXCEPT !.ignore_child_updates_ = FALSE]

\* EulerProperty::updateFromChildren, the slot of a field's changed().  Its
\* call setEulerAngles(euler, false) at line 207 finds the flag that line 206
\* has set, skips lines 103-108 and runs lines 110-116; were the flag clear
\* there, the fields would be pushed from inside their own slot: that is
\* recorded and not followed.
Euler_updateFromChildren(m) ==
    IF m.ignore_child_updates_
    THEN m
    ELSE LET euler == <<FromDegrees(m.euler_[1]), FromDegrees(m.euler_[2]),
                        FromDegrees(m.euler_[3])>>
             m1 == Note([m EXCEPT !.ignore_child_updates_ = TRUE], "updateFromChildren")
             m2 == IF ~m1.ignore_child_updates_ THEN Note(m1, "reentered setValue") ELSE m1
             m3 == StoreQuaternion(m2, Compose(euler, m2.axes_, m2.fixed_))
         IN  [m3 EXCEPT !.ignore_child_updates_ = FALSE]

\* euler_[i]->setValue(v) (rviz::Property::setValue), also a user's edit of
\* angle field i: the field changes and signals only when the value differs
FloatProperty_setValue(m, i, v) ==
    IF m.euler_[i] = v
    THEN m
    ELSE LET m1 == IF m.connected THEN Euler_emitAboutToChange(m) ELSE m
             m2 == Note([m1 EXCEPT !.euler_[i] = v], "euler_ assigned")
         IN  IF m.connected THEN Euler_updateFromChildren(m2) ELSE m2

\* setEulerAngles without lines 103-108
PushAngles_skipped(m, euler) == m

\* lines 103-108 of setEulerAngles: push the angles into the three fields
PushAngles(m, euler) ==
    IF ~m.ignore_child_updates_
    THEN LET m1 == [m EXCEPT !.ignore_child_updates_ = TRUE]
             m2 == FloatProperty_setValue(m1, 1, ToDegrees(euler[1]))
             m3 == FloatProperty_setValue(m2, 2, ToDegrees(euler[2]))
             m4 == FloatProperty_setValue(m3, 3, ToDegrees(euler[3]))
         IN  [m4 EXCEPT !.ignore_child_updates_ = FALSE]
    ELSE m

\* EulerProperty::setEulerAngles(euler, false): lines 91-99 and 102-117
Euler_setEulerAngles_direct(m, euler) ==
    StoreQuaternion(PushAngles(m, euler), Compose(euler, m.axes_, m.fixed_))

\* std::swap(e[0], e[2])
SwapEnds(e) == <<e[3], e[2], e[1]>>

\* EulerProperty::updateAngles
Euler_updateAngles(m) ==
    Euler_setEulerAngles_direct(
        Note(m, "updateAngles"),
        IF m.fixed_
        THEN SwapEnds(EulerAnglesOf(Matrix(m.quaternion_), m.axes_[3], m.axes_[2], m.axes_[1]))
        ELSE EulerAnglesOf(Matrix(m.quaternion_), m.axes_[1], m.axes_[2], m.axes_[3]))

\* EulerProperty::setQuaternion
Euler_setQuaternion(m, q) ==
    LET m0 == Note(m, "Euler::setQuaternion")
    IN  IF IsApprox(m.quaternion_, q)
        THEN m0
        ELSE Euler_updateAngles(Note([m0 EXCEPT !.quaternion_ = q], "quaternion_ assigned"))

\* EulerProperty::setEulerAngles(double euler[], bool normalize)
Euler_setEulerAngles(m, euler, normalize) ==
    IF normalize
    THEN Euler_setQuaternion(m, Compose(euler, m.axes_, m.fixed_))
    ELSE Euler_setEulerAngles_direct(m, euler)

\* RotationProperty::setQuaternion
Rotation_setQuaternion(m, q) ==
    LET m0 == Note(m, "Rotation::setQuaternion")
    IN  IF IsApprox(m.quaternion_, q)
        THEN m0
        ELSE LET m1 == Euler_setQuaternion([m0 EXCEPT !.rot_ignore_child_updates_ = TRUE], q)
                 m2 == QuaternionProperty_setQuaternion_inUpdate(m1, ToFloat(q))
             IN  [m2 EXCEPT !.rot_ignore_child_updates_ = FALSE]

\* updateFromQuaternion without line 99
Rotation_updateFromQuaternion_keepsFlag(m) ==
    IF m.rot_ignore_child_updates_
    THEN m
    ELSE LET eigen_q == m.quaternion_property_
         IN  IF IsApproxFloat(eigen_q, ToFloat(m.quaternion_))
             THEN m
             ELSE Rotation_updateString(
                      Rotation_setQuaternion(Note(m, "updateFromQuaternion"), eigen_q))

\* RotationProperty::updateFromQuaternion, the slot of the field's changed()
Rotation_updateFromQuaternion(m) ==
    IF m.rot_ignore_child_updates_
    THEN m
    ELSE LET eigen_q == m.quaternion_property_
         IN  IF IsApproxFloat(eigen_q, ToFloat(m.quaternion_))
             THEN m
             ELSE Rotation_updateString(
                      [Rotation_setQuaternion(Note(m, "updateFromQuaternion"), eigen_q)
                          EXCEPT !.show_euler_string_ = FALSE])

\* a user's edit of the quaternion field (rviz::QuaternionProperty): the field
\* changes and signals changed() only when the new value differs
QuaternionProperty_setQuaternion(m, q) ==
    IF q = m.quaternion_property_
    THEN m
    ELSE Rotation_updateFromQuaternion(
             Note([m EXCEPT !.quaternion_property_ = q], "quaternion_property_ assigned"))

\* the character code of c (pc[i] in "pc[i] - 'x'")
Ord(c) ==
    CASE c = "a" -> 97  [] c = "b" -> 98  [] c = "d" -> 100 [] c = "p" -> 112
      [] c = "q" -> 113 [] c = "r" -> 114 [] c = "s" -> 115 [] c = "x" -> 120
      [] c = "y" -> 121 [] c = "z" -> 122 [] OTHER -> 0

\* line 140: pc = sAxes.toLatin1().constData() points into a temporary
\* QByteArray that is destroyed at the end of that statement, so every later
\* read through pc is a read of freed memory.  The bytes read are either
\* still those of sAxes or whatever has replaced them.
GarbageBytes == { <<"z", "y", "x">> }

PcOutcomes(sAxes) == {sAxes} \cup GarbageBytes

\* lines 134-137: the alias
AxesAlias(axes_spec) ==
    IF axes_spec = <<"r", "p", "y">> THEN <<"s", "x", "y", "z">> ELSE axes_spec

\* lines 141-145: the frame prefix; the result is <<fixed, the axis characters>>
FramePrefix(pc) ==
    IF Len(pc) > 0 /\ pc[1] = "s" THEN <<TRUE, Tail(pc)>>
    ELSE IF Len(pc) > 0 /\ pc[1] = "r" THEN <<FALSE, Tail(pc)>>
    ELSE <<FALSE, pc>>

\* lines 152-158: the three axis characters pc[0..2] to indexes; the result is
\* the exception thrown, if any, and the indexes
ParseAxes(pc) ==
    LET idx(i) == Ord(pc[i]) - Ord("x")
        bad(i) == idx(i) < 0 \/ idx(i) > 2
        axes == <<idx(1), idx(2), idx(3)>>
    IN  IF bad(1) THEN [thrown |-> [kind |-> "char", ch |-> pc[1]], axes |-> axes]
        ELSE IF bad(2) THEN [thrown |-> [kind |-> "char", ch |-> pc[1]], axes |-> axes]
        ELSE IF idx(1) = idx(2) THEN [thrown |-> [kind |-> "consecutive", ch |-> ""], axes |-> axes]
        ELSE IF bad(3) THEN [thrown |-> [kind |-> "char", ch |-> pc[1]], axes |-> axes]
        ELSE IF idx(2) = idx(3) THEN [thrown |-> [kind |-> "consecutive", ch |-> ""], axes |-> axes]
        ELSE [thrown |-> NoThrow, axes |-> axes]

\* EulerProperty::setEulerAxes; bytes is what the reads through pc return
Euler_setEulerAxes(m, axes_spec, bytes) ==
    IF m.axes_string_ = axes_spec
    THEN m
    ELSE LET prefix == FramePrefix(bytes)
             fixed == prefix[1]
             pc == prefix[2]
         IN  IF axes_spec = <<>> \/ Len(pc) # 3
             THEN Throw(m, "generic", "")
             ELSE LET parsed == ParseAxes(pc)
                  IN  IF parsed.thrown # NoThrow
                      THEN [m EXCEPT !.thrown = parsed.thrown]
                      ELSE Euler_updateAngles(
                               Note([m EXCEPT !.axes_string_ = axes_spec,
                                              !.fixed_ = fixed,
                                              !.axes_ = parsed.axes],
                                    "axes assigned"))

\* lines 186-194: the angle part of a text; parts[i] is [ok, v]: whether
\* toDouble accepts the i-th ';'-separated piece, and its value in degrees
AnglesOk(parts) ==
    /\ Len(parts) >= 3
    /\ parts[1].ok /\ parts[2].ok /\ parts[3].ok

\* lines 181-197 of setValue: m is the editor after the try block
ParseAngles(m, parts, r) ==
    IF m.thrown # NoThrow
    THEN [m EXCEPT !.thrown = NoThrow, !.ret = "false"]
    ELSE IF ~AnglesOk(parts)
    THEN [m EXCEPT !.ret = "false"]
    ELSE [Euler_setEulerAngles(m, <<FromDegrees(parts[1].v), FromDegrees(parts[2].v),
                                    FromDegrees(parts[3].v)>>, FALSE)
             EXCEPT !.ret = IF r THEN "true" ELSE "false"]

\* EulerProperty::setValue.  text is [hasSpec, spec, parts]: whether the
\* regular expression finds an axes token, the token, and the pieces left.
\* The function has no return statement on its successful path: the value
\* the caller then sees is unspecified, r stands for it.
Euler_setValue(m, text, bytes, r) ==
    ParseAngles(IF text.hasSpec THEN Euler_setEulerAxes(m, text.spec, bytes) ELSE m,
                text.parts, r)

\* lines 250-252 of load, reached unless setEulerAxes has thrown
LoadAngles(m, e) ==
    IF m.thrown # NoThrow
    THEN m
    ELSE Euler_setEulerAngles(m, <<FromDegrees(e[1].v), FromDegrees(e[2].v),
                                   FromDegrees(e[3].v)>>, TRUE)

\* EulerProperty::load (RotationProperty::load forwards to it).  config is
\* [axes, e]: for each key whether mapGet... finds it, and its value
Euler_load(m, config, bytes) ==
    IF config.axes.ok /\ config.e[1].ok /\ config.e[2].ok /\ config.e[3].ok
    THEN LoadAngles(Euler_setEulerAxes(m, config.axes.v, bytes), config.e)
    ELSE m

\* EulerProperty::save (RotationProperty::save forwards to it)
Euler_save(m) ==
    [axes |-> m.axes_string_, e1 |-> m.euler_[1], e2 |-> m.euler_[2], e3 |-> m.euler_[3]]

\* the two constructors: EulerProperty's, inside RotationProperty's, with
\* no signal connected yet while EulerProperty's setEulerAxes("rpy") runs
Constructed(value, bytes) ==
    LET m0 == [quaternion_ |-> value, ignore_child_updates_ |-> FALSE,
               euler_ |-> <<0, 0, 0>>, axes_string_ |-> <<>>,
               fixed_ |-> FALSE, axes_ |-> <<0, 0, 0>>,
               value_ |-> [kind |-> "", axes |-> <<>>, e |-> <<0, 0, 0>>, q |-> NoQuat],
               quaternion_property_ |-> ToFloat(value),
               rot_ignore_child_updates_ |-> FALSE, show_euler_string_ |-> TRUE,
               string_ |-> [kind |-> "", axes |-> <<>>, e |-> <<0, 0, 0>>, q |-> NoQuat],
               connected |-> FALSE, log |-> <<>>, thrown |-> NoThrow, ret |-> "void"]
        m1 == Euler_setEulerAxes(m0, <<"r", "p", "y">>, bytes)
    IN  Rotation_updateString([m1 EXCEPT !.connected = TRUE])

(***************************************************************************)
(* State                                                                   *)
(***************************************************************************)
VARIABLES
    quaternion_,                \* EulerProperty
    axes_string_,
    fixed_,
    axes_,
    euler_,
    ignore_child_updates_,
    value_,
    quaternion_property_,       \* RotationProperty
    rot_ignore_child_updates_,
    show_euler_string_,
    string_,
    op,                         \* the last operation and its inputs
    pre,                        \* the fields before the last operation
    nops,                       \* the number of operations performed
    log,                        \* what the last operation emitted and assigned
    thrown,                     \* the exception the last operation raised
    ret,                        \* the value the last operation returned
    intact                      \* every read through pc so far returned the
                                \* bytes of sAxes

vars == <<quaternion_, axes_string_, fixed_, axes_, euler_, ignore_child_updates_,
          value_, quaternion_property_, rot_ignore_child_updates_,
          show_euler_string_, string_, op, pre, nops, log, thrown, ret, intact>>

Fields(m) ==
    [quaternion_ |-> m.quaternion_, axes_string_ |-> m.axes_string_,
     fixed_ |-> m.fixed_, axes_ |-> m.axes_, euler_ |-> m.euler_,
     ignore_child_updates_ |-> m.ignore_child_updates_, value_ |-> m.value_,
     quaternion_property_ |-> m.quaternion_property_,
     rot_ignore_child_updates_ |-> m.rot_ignore_child_updates_,
     show_euler_string_ |-> m.show_euler_string_, string_ |-> m.string_]

\* the editors as they stand, at the start of an operation
Cur ==
    [quaternion_ |-> quaternion_, axes_string_ |-> axes_string_,
     fixed_ |-> fixed_, axes_ |-> axes_, euler_ |-> euler_,
     ignore_child_updates_ |-> ignore_child_updates_, value_ |-> value_,
     quaternion_property_ |-> quaternion_property_,
     rot_ignore_child_updates_ |-> rot_ignore_child_updates_,
     show_euler_string_ |-> show_euler_string_, string_ |-> string_,
     connected |-> TRUE, log |-> <<>>, thrown |-> NoThrow, ret |-> "void"]

\* the read through pc that operation o made returned the bytes of sAxes
IntactRead(o) ==
    CASE o.name = "constructor"  -> o.bytes = <<"s", "x", "y", "z">>
      [] o.name = "setEulerAxes" -> o.bytes = AxesAlias(o.axes_spec)
      [] o.name = "setValue"     -> o.bytes = AxesAlias(o.text.spec)
      [] o.name = "load"         -> o.bytes = AxesAlias(o.config.axes.v)
      [] OTHER                   -> TRUE

\* the editors as operation o leaves them
Commit(result, o) ==
    \E m \in {result} :
    /\ nops' = nops + 1
    /\ quaternion_' = m.quaternion_
    /\ axes_string_' = m.axes_string_
    /\ fixed_' = m.fixed_
    /\ axes_' = m.axes_
    /\ euler_' = m.euler_
    /\ ignore_child_updates_' = m.ignore_child_updates_
    /\ value_' = m.value_
    /\ quaternion_property_' = m.quaternion_property_
    /\ rot_ignore_child_updates_' = m.rot_ignore_child_updates_
    /\ show_euler_string_' = m.show_euler_string_
    /\ string_' = m.string_
    /\ op' = o
    /\ pre' = Fields(Cur)
    /\ log' = m.log
    /\ thrown' = m.thrown
    /\ ret' = m.ret
    /\ intact' = (intact /\ IntactRead(o))

\* the quaternions the editors are constructed with
InitValues == { Identity, QNeg(AngleAxis(1, 2)) }

Init ==
    \E value \in InitValues, bytes \in PcOutcomes(<<"s", "x", "y", "z">>) :
        \E m \in {Constructed(value, bytes)} :
            /\ m.thrown = NoThrow
            /\ quaternion_ = m.quaternion_
            /\ axes_string_ = m.axes_string_
            /\ fixed_ = m.fixed_
            /\ axes_ = m.axes_
            /\ euler_ = m.euler_
            /\ ignore_child_updates_ = m.ignore_child_updates_
            /\ value_ = m.value_
            /\ quaternion_property_ = m.quaternion_property_
            /\ rot_ignore_child_updates_ = m.rot_ignore_child_updates_
            /\ show_euler_string_ = m.show_euler_string_
            /\ string_ = m.string_
            /\ op = [name |-> "constructor", bytes |-> bytes]
            /\ pre = Fields(m)
            /\ nops = 0
            /\ log = <<>>
            /\ thrown = NoThrow
            /\ ret = "void"
            /\ intact = (bytes = <<"s", "x", "y", "z">>)

(***************************************************************************)
(* Operations                                                              *)
(***************************************************************************)
\* RotationProperty::setQuaternion(q)
SetQuaternion ==
    /\ nops < MaxOps
    /\ \E q \in QInputs :
        Commit(Rotation_setQuaternion(Cur, q), [name |-> "setQuaternion", q |-> q])

\* RotationProperty::setEulerAngles(euler, normalize)
SetEulerAngles ==
    /\ nops < MaxOps
    /\ \E euler \in AngleTriples, normalize \in BOOLEAN :
        Commit(Euler_setEulerAngles(Cur, euler, normalize),
               [name |-> "setEulerAngles", euler |-> euler, normalize |-> normalize])

\* RotationProperty::setEulerAxes(axes_spec)
SetEulerAxes ==
    /\ nops < MaxOps
    /\ \E axes_spec \in AxesInputs :
        \E bytes \in PcOutcomes(AxesAlias(axes_spec)) :
            Commit(Euler_setEulerAxes(Cur, axes_spec, bytes),
                   [name |-> "setEulerAxes", axes_spec |-> axes_spec, bytes |-> bytes])

Num(v) == [ok |-> TRUE, v |-> v]

NotNum == [ok |-> FALSE, v |-> 0]

\* the angle parts of the texts a user types: three numbers, two numbers,
\* a piece that is no number, four numbers
PartsInputs ==
    { <<Num(90), Num(0), Num(0)>>,
      <<Num(0), Num(90)>>,
      <<Num(90), NotNum, Num(0)>>,
      <<Num(0), Num(0), Num(90), Num(90)>> }

\* "90; 0; 0", "xyz: 90; 0; 0", "bad: 90; 0; 0" and the like
TextInputs ==
    [hasSpec : {FALSE}, spec : {<<>>}, parts : PartsInputs]
    \cup [hasSpec : {TRUE}, spec : { <<"x", "y", "z">> }, parts : PartsInputs]
    \cup [hasSpec : {TRUE}, spec : { <<"b", "a", "d">> }, parts : { <<Num(90), Num(0), Num(0)>> }]

\* a user's edit of the Euler editor's text: EulerProperty::setValue(value)
EditText ==
    /\ nops < MaxOps
    /\ \E text \in TextInputs, r \in BOOLEAN :
        \E bytes \in PcOutcomes(AxesAlias(text.spec)) :
            Commit(Euler_setValue(Cur, text, bytes, r),
                   [name |-> "setValue", text |-> text, bytes |-> bytes])

Key(v) == [ok |-> TRUE, v |-> v]

NoKey == [ok |-> FALSE, v |-> <<>>]

ConfigInputs ==
    [axes : { Key(<<"x", "y", "z">>), Key(<<"x", "y", "q">>), NoKey },
     e : { <<Num(90), Num(0), Num(0)>>, <<Num(270), Num(180), Num(0)>>,
           <<Num(90), Num(0), NotNum>> }]

\* RotationProperty::load(config)
Load ==
    /\ nops < MaxOps
    /\ \E config \in ConfigInputs :
        \E bytes \in PcOutcomes(AxesAlias(config.axes.v)) :
            Commit(Euler_load(Cur, config, bytes),
                   [name |-> "load", config |-> config, bytes |-> bytes])

\* a user's edit of angle field i (0..2), to v degrees
EditAngle ==
    /\ nops < MaxOps
    /\ \E i \in 1..3, a \in AngleInputs :
        Commit(FloatProperty_setValue(Cur, i, ToDegrees(a)),
               [name |-> "editAngle", i |-> i, v |-> ToDegrees(a)])

\* a user's edit of the quaternion field, to the float quaternion q
EditQuaternion ==
    /\ nops < MaxOps
    /\ \E q \in QInputs :
        Commit(QuaternionProperty_setQuaternion(Cur, ToFloat(q)),
               [name |-> "editQuaternion", q |-> ToFloat(q)])

Next ==
    \/ SetQuaternion
    \/ SetEulerAngles
    \/ SetEulerAxes
    \/ EditText
    \/ Load
    \/ EditAngle
    \/ EditQuaternion

Spec == Init /\ [][Next]_vars

(***************************************************************************)
(* Vocabulary of the properties                                            *)
(***************************************************************************)
Positions(name) == {i \in 1..Len(log) : log[i].e = name}

CountOf(name) == Cardinality(Positions(name))

\* the signals of the Euler editor
EulerSignals == {"aboutToChange", "changed", "quaternionChanged"}

NoSignal == \A i \in 1..Len(log) : log[i].e \notin EulerSignals

\* the assignments to the Euler editor's angle fields, axes and quaternion
Mutations == {"euler_ assigned", "axes assigned", "quaternion_ assigned"}

\* axis spec, frame flag, axis order, angles and quaternion are as before
\* the operation
EulerUnchanged ==
    /\ axes_string_ = pre.axes_string_
    /\ fixed_ = pre.fixed_
    /\ axes_ = pre.axes_
    /\ euler_ = pre.euler_
    /\ quaternion_ = pre.quaternion_

\* a and b are the same rotation: equal coefficients up to the common sign,
\* within float tolerance
SameRotation(a, b) == IsApproxFloat(a, b) \/ IsApproxFloat(QNeg(a), b)

NoUpdateInProgress == ~ignore_child_updates_ /\ ~rot_ignore_child_updates_

\* [sr]?[xyz]{3} with no two consecutive letters equal, or the alias rpy
Letters(spec) == IF Len(spec) = 4 THEN Tail(spec) ELSE spec

WellFormed(spec) ==
    \/ spec = <<"r", "p", "y">>
    \/ /\ Len(spec) \in {3, 4}
       /\ Len(spec) = 4 => spec[1] \in {"s", "r"}
       /\ \A i \in 1..3 : Letters(spec)[i] \in {"x", "y", "z"}
       /\ Letters(spec)[1] # Letters(spec)[2]
       /\ Letters(spec)[2] # Letters(spec)[3]

\* the frame flag and the axis indices a well-formed specification denotes
DenotedFixed(spec) == spec = <<"r", "p", "y">> \/ spec[1] = "s"

LetterIndex(c) == CASE c = "x" -> 0 [] c = "y" -> 1 [] OTHER -> 2

DenotedAxes(spec) ==
    IF spec = <<"r", "p", "y">>
    THEN <<0, 1, 2>>
    ELSE <<LetterIndex(Letters(spec)[1]), LetterIndex(Letters(spec)[2]),
           LetterIndex(Letters(spec)[3])>>

(***************************************************************************)
(* C1.  Whenever no update is in progress, the quaternion stored by the    *)
(* Euler editor and the quaternion shown by the quaternion field are the   *)
(* same rotation within tolerance.                                         *)
(* Fails: setEulerAngles(euler, true) and load go through                  *)
(* EulerProperty::setQuaternion, which stores q at line 85 before line 111 *)
(* compares the stored value with the recomposed one, so quaternionChanged *)
(* is not emitted and the quaternion field keeps its old value.            *)
(***************************************************************************)
C1_SameRotation ==
    (intact /\ NoUpdateInProgress) => SameRotation(quaternion_, quaternion_property_)

(***************************************************************************)
(* C2.  An operation emits quaternionChanged exactly when the Euler        *)
(* editor's stored quaternion differs from its value before the operation  *)
(* beyond tolerance, and then once and with the new value.                 *)
(* Fails: EulerProperty::setQuaternion changes the stored quaternion and   *)
(* emits nothing when the recomposed quaternion is the one it stored.      *)
(***************************************************************************)
C2_QuaternionChangedExactly ==
    intact =>
        IF ~IsApprox(pre.quaternion_, quaternion_)
        THEN /\ CountOf("quaternionChanged") = 1
             /\ \A i \in Positions("quaternionChanged") : log[i].q = quaternion_
        ELSE CountOf("quaternionChanged") = 0

(***************************************************************************)
(* C3.  A text edit whose angle part is malformed leaves axis spec, frame  *)
(* flag, axis order, angles and quaternion unchanged and emits nothing,    *)
(* also when it starts with a valid axis spec other than the current one.  *)
(* Stated for the runs in which the reads through pc return sAxes.         *)
(* Fails: setValue applies setEulerAxes before it looks at the angles.     *)
(***************************************************************************)
C3_MalformedAnglesRejected ==
    (op.name = "setValue" /\ intact /\ ~AnglesOk(op.text.parts)
        /\ (op.text.hasSpec => WellFormed(op.text.spec)))
    => (ret = "false" /\ EulerUnchanged /\ NoSignal)

(***************************************************************************)
(* C4.  Every operation is a finite chain of handler invocations that      *)
(* returns with both guards released: the angle fields pushed by           *)
(* setEulerAngles never start updateFromChildren's recomputation, which    *)
(* runs once and only for a user's edit of an angle field; the field       *)
(* change made by updateFromEuler never makes updateFromQuaternion call    *)
(* setQuaternion, which runs at most once per operation; a single edit or  *)
(* call decomposes the angles at most once.                                *)
(***************************************************************************)
C4_NoUpdateCycle ==
    /\ NoUpdateInProgress
    /\ CountOf("reentered setQuaternion") = 0
    /\ CountOf("reentered setValue") = 0
    /\ CountOf("updateFromChildren") = (IF op.name = "editAngle" /\ euler_ # pre.euler_ THEN 1 ELSE 0)
    /\ CountOf("updateFromQuaternion") <= (IF op.name = "editQuaternion" THEN 1 ELSE 0)
    /\ CountOf("Rotation::setQuaternion") <= 1
    /\ CountOf("Euler::setQuaternion") <= 1
    /\ op.name \in {"setQuaternion", "setEulerAngles", "setEulerAxes",
                     "editAngle", "editQuaternion"}
       => (CountOf("updateAngles") <= 1 /\ CountOf("updateFromEuler") <= 1)

\* a user's edit of the quaternion field that went all the way round: the
\* angles were pushed into the fields, quaternionChanged reached
\* updateFromEuler, and the quaternion field was assigned by the user, by
\* updateFromEuler and by setQuaternion
C4_Witness ==
    /\ op.name = "editQuaternion"
    /\ CountOf("Rotation::setQuaternion") = 1
    /\ CountOf("euler_ assigned") >= 1
    /\ CountOf("updateFromEuler") = 1
    /\ CountOf("quaternion_property_ assigned") = 3

(***************************************************************************)
(* C5.  setEulerAxes with an invalid specification raises invalid_axes and *)
(* leaves axis spec, frame flag, axis order, angles and quaternion         *)
(* unchanged, with no notification.                                        *)
(* Fails on the read of freed memory through pc (line 140): the bytes      *)
(* parsed need not be those of the specification.                          *)
(***************************************************************************)
C5_InvalidAxesRejected ==
    (op.name = "setEulerAxes" /\ ~WellFormed(op.axes_spec))
    => (thrown.kind # "none" /\ EulerUnchanged /\ NoSignal)

\* C5 holds on the runs in which the reads through pc return sAxes
C5_IntactRead ==
    intact =>
        /\ WellFormed(axes_string_)
        /\ (op.name = "setEulerAxes" /\ ~WellFormed(op.axes_spec))
           => (thrown.kind # "none" /\ EulerUnchanged /\ NoSignal)

(***************************************************************************)
(* C6.  setEulerAxes with a well-formed specification succeeds and stores  *)
(* the frame flag and the axis indices it denotes; rpy is stored as fixed, *)
(* [0, 1, 2].                                                              *)
(* Fails on the read of freed memory through pc (line 140).                *)
(***************************************************************************)
C6_ValidAxesStored ==
    (op.name = "setEulerAxes" /\ WellFormed(op.axes_spec))
    => /\ thrown.kind = "none"
       /\ axes_string_ = op.axes_spec
       /\ fixed_ = DenotedFixed(op.axes_spec)
       /\ axes_ = DenotedAxes(op.axes_spec)

\* C6 holds on the runs in which the reads through pc return sAxes
C6_IntactRead ==
    intact =>
        /\ fixed_ = DenotedFixed(axes_string_)
        /\ axes_ = DenotedAxes(axes_string_)
        /\ (op.name = "setEulerAxes" /\ WellFormed(op.axes_spec))
           => (thrown.kind = "none" /\ axes_string_ = op.axes_spec)

(***************************************************************************)
(* C7.  An operation that assigns an angle field, the axes or the stored   *)
(* quaternion emits aboutToChange before the first of these assignments    *)
(* and changed after the last, and every changed follows an aboutToChange. *)
(* Fails: setEulerAngles assigns the fields at lines 105-106, with their   *)
(* own aboutToChange suppressed, before line 110 emits aboutToChange;      *)
(* setQuaternion assigns at line 85 and setEulerAxes at lines 161-164      *)
(* before anything is emitted.                                             *)
(***************************************************************************)
C7_AboutToChangeFirst ==
    (intact /\ thrown.kind = "none") =>
    /\ \A i \in 1..Len(log) :
           log[i].e \in Mutations =>
               /\ \E a \in Positions("aboutToChange") : a < i
               /\ \E c \in Positions("changed") : c > i
    /\ \A c \in Positions("changed") : \E a \in Positions("aboutToChange") : a < c

(***************************************************************************)
(* C8.  A user's edit of the quaternion field, with no update in progress: *)
(* if the new value equals the current quaternion at the field's precision *)
(* the Euler editor and the display choice stay as they are; otherwise the *)
(* Euler editor gets the new quaternion through one setQuaternion call,    *)
(* decomposes it once, nothing is re-entered, the display-authority flag   *)
(* ends as "quaternion" and the display text is the "quat: ..." form of    *)
(* the field's value.                                                      *)
(***************************************************************************)
C8_QuaternionEdit ==
    (op.name = "editQuaternion" /\ op.q # pre.quaternion_property_)
    => IF IsApproxFloat(op.q, pre.quaternion_)
       THEN /\ EulerUnchanged
            /\ NoSignal
            /\ show_euler_string_ = pre.show_euler_string_
            /\ string_ = pre.string_
            /\ CountOf("Euler::setQuaternion") = 0
       ELSE /\ CountOf("Rotation::setQuaternion") = 1
            /\ CountOf("Euler::setQuaternion") = 1
            /\ CountOf("updateAngles") = 1
            /\ CountOf("reentered setQuaternion") = 0
            /\ SameRotation(quaternion_, op.q)
            /\ quaternion_property_ = op.q
            /\ ~show_euler_string_
            /\ string_.kind = "quat"
            /\ string_.q = quaternion_property_

\* the user typed another rotation while the Euler text was shown
C8_Witness ==
    /\ op.name = "editQuaternion"
    /\ pre.show_euler_string_
    /\ ~SameRotation(op.q, pre.quaternion_)
    /\ euler_ # pre.euler_
    /\ ~show_euler_string_
    /\ string_.kind = "quat"

(***************************************************************************)
(* C9.  load never raises, and leaves axis spec, frame flag, axis order,   *)
(* angles and quaternion unchanged when a key is missing or malformed, an  *)
(* axes value that is no valid specification included.                     *)
(* Stated for the runs in which the reads through pc return sAxes.         *)
(* Fails: load does not catch the invalid_axes that setEulerAxes throws.   *)
(***************************************************************************)
ConfigComplete(config) ==
    /\ config.axes.ok /\ WellFormed(config.axes.v)
    /\ config.e[1].ok /\ config.e[2].ok /\ config.e[3].ok

C9_LoadNeverRaises ==
    (op.name = "load" /\ intact)
    => /\ thrown.kind = "none"
       /\ ~ConfigComplete(op.config) => (EulerUnchanged /\ NoSignal)

(***************************************************************************)
(* C10.  setQuaternion(q) called a second time, right after                *)
(* setQuaternion(q), changes no field and emits no aboutToChange, changed  *)
(* or quaternionChanged.                                                   *)
(* Fails for a q whose decomposed angles compose to -q: the editor then    *)
(* stores -q, which the second call does not find approximately equal.     *)
(***************************************************************************)
C10_SetQuaternionTwice ==
    [][(intact /\ op.name = "setQuaternion" /\ op'.name = "setQuaternion" /\ op'.q = op.q)
       => /\ Fields(Cur)' = Fields(Cur)
          /\ \A i \in 1..Len(log') : log'[i].e \notin EulerSignals]_vars

\* the angle fields, in quarter turns
Angles == <<FromDegrees(euler_[1]), FromDegrees(euler_[2]), FromDegrees(euler_[3])>>

\* the state of both editors is what it was before the operation
NothingChanged == Fields(Cur) = pre

(***************************************************************************)
(* C11.  setEulerAxes(spec) with the stored specification changes nothing  *)
(* and emits nothing; with another well-formed specification it stores the *)
(* specification, the frame flag and the axis order it denotes, keeps the  *)
(* rotation of the stored quaternion and decomposes it once, so that the   *)
(* angle fields compose to that rotation under the new convention.         *)
(* Fails on the read of freed memory through pc (line 140), as C6 does.    *)
(***************************************************************************)
C11_SetEulerAxes ==
    op.name = "setEulerAxes" =>
        IF op.axes_spec = pre.axes_string_
        THEN NothingChanged /\ log = <<>> /\ thrown.kind = "none"
        ELSE WellFormed(op.axes_spec) =>
                 /\ thrown.kind = "none"
                 /\ axes_string_ = op.axes_spec
                 /\ fixed_ = DenotedFixed(op.axes_spec)
                 /\ axes_ = DenotedAxes(op.axes_spec)
                 /\ SameRotation(quaternion_, pre.quaternion_)
                 /\ CountOf("updateAngles") = 1
                 /\ SameRotation(Compose(Angles, axes_, fixed_), quaternion_)

\* C11 holds on the runs in which the reads through pc return sAxes
C11_IntactRead == intact => C11_SetEulerAxes

(***************************************************************************)
(* C12.  Whenever no update is in progress, the Euler editor's stored      *)
(* quaternion is approximately the composition of the rotations by its     *)
(* three angle fields about its axes: R(axis2)*R(axis1)*R(axis0) in the    *)
(* fixed frame, R(axis0)*R(axis1)*R(axis2) in the rotating frame.          *)
(***************************************************************************)
C12_QuaternionIsComposition ==
    NoUpdateInProgress => IsApprox(quaternion_, Compose(Angles, axes_, fixed_))

\* after a second operation the editor holds three non-zero angles in the
\* fixed frame and a quaternion that the operation has changed
C12_Witness ==
    /\ nops = 2
    /\ fixed_
    /\ \A i \in 1..3 : euler_[i] # 0
    /\ quaternion_ # pre.quaternion_

(***************************************************************************)
(* C13.  A text edit whose leading axes token is no valid specification    *)
(* returns false, lets no exception out of setValue, and leaves axis spec, *)
(* frame flag, axis order, angles and quaternion as they were.             *)
(* Fails on the read of freed memory through pc (line 140), as C5 does.    *)
(***************************************************************************)
C13_InvalidTokenRejected ==
    (op.name = "setValue" /\ op.text.hasSpec /\ ~WellFormed(op.text.spec))
    => (ret = "false" /\ thrown.kind = "none" /\ EulerUnchanged)

\* C13 holds on the runs in which the reads through pc return sAxes
C13_IntactRead == intact => C13_InvalidTokenRejected

\* two angles in degrees are the same angle
SameAngle(a, b) == (a - b) % 360 = 0

(***************************************************************************)
(* C14.  load of {axes, e1, e2, e3} with a valid axes value, followed by   *)
(* save, gives back the four values: the axes string and the three angles  *)
(* in degrees (taken modulo 360 here).                                     *)
(* Stated for the runs in which the reads through pc return sAxes.         *)
(* Fails: load passes the angles through setEulerAngles(..., true), which  *)
(* replaces them by the angles Eigen's decomposition returns for their     *)
(* rotation.                                                               *)
(***************************************************************************)
C14_LoadThenSave ==
    (op.name = "load" /\ intact /\ ConfigComplete(op.config))
    => /\ thrown.kind = "none"
       /\ Euler_save(Cur).axes = op.config.axes.v
       /\ SameAngle(Euler_save(Cur).e1, op.config.e[1].v)
       /\ SameAngle(Euler_save(Cur).e2, op.config.e[2].v)
       /\ SameAngle(Euler_save(Cur).e3, op.config.e[3].v)

(***************************************************************************)
(* C15.  After setQuaternion(q), under any stored axes and either frame,   *)
(* the angle fields compose to a quaternion approximately equal to q, and  *)
(* the editor's stored quaternion is approximately q.                      *)
(* Stated for the runs in which the reads through pc return sAxes.         *)
(* Fails: the decomposition sees only the rotation matrix, so the angles   *)
(* of half of the unit quaternions compose to -q, which line 111 finds     *)
(* different from q and stores.                                            *)
(***************************************************************************)
C15_RoundTrip ==
    (op.name = "setQuaternion" /\ intact)
    => /\ IsApprox(op.q, Compose(Angles, axes_, fixed_))
       /\ IsApprox(op.q, quaternion_)

\* what holds instead, garbage reads included: the angles compose to the
\* stored quaternion, which is q or -q
C15_UpToSign ==
    op.name = "setQuaternion"
    => /\ IsApprox(quaternion_, Compose(Angles, axes_, fixed_))
       /\ SameRotation(op.q, quaternion_)

(***************************************************************************)
(* C16.  After an angle-field edit, setEulerAngles or setEulerAxes that    *)
(* has changed the Euler editor, the display-authority flag is "Euler";    *)
(* RotationProperty::setQuaternion leaves the flag as it was.              *)
(* Stated for the runs in which the reads through pc return sAxes.         *)
(* Fails: the flag is set only in updateFromEuler, the slot of             *)
(* quaternionChanged, which setEulerAxes and setEulerAngles(..., true)     *)
(* need not emit.                                                          *)
(***************************************************************************)
C16_DisplayAuthority ==
    /\ (intact /\ op.name \in {"editAngle", "setEulerAngles", "setEulerAxes"}
          /\ thrown.kind = "none" /\ ~EulerUnchanged)
       => show_euler_string_
    /\ op.name = "setQuaternion" => show_euler_string_ = pre.show_euler_string_

\* the part of C16 that holds: setQuaternion leaves the flag alone, and an
\* operation on the Euler editor that emits quaternionChanged sets it
C16_WhenNotified ==
    /\ op.name = "setQuaternion" => show_euler_string_ = pre.show_euler_string_
    /\ (op.name \in {"editAngle", "setEulerAngles", "setEulerAxes", "setValue", "load"}
          /\ CountOf("quaternionChanged") > 0)
       => show_euler_string_

(***************************************************************************)
(* C17.  setEulerAngles(euler, false) and a user's edit of one angle field *)
(* store the angles as given, with no decomposition: each field holds the  *)
(* given angle in degrees, the fields the user did not edit keep their     *)
(* values, and the stored quaternion is approximately the composition of   *)
(* the angles in the fields.                                               *)
(***************************************************************************)
C17_AnglesStoredDirectly ==
    /\ (op.name = "setEulerAngles" /\ ~op.normalize)
       => /\ euler_ = <<90 * op.euler[1], 90 * op.euler[2], 90 * op.euler[3]>>
          /\ IsApprox(quaternion_, Compose(op.euler, axes_, fixed_))
          /\ CountOf("updateAngles") = 0
    /\ op.name = "editAngle"
       => /\ euler_ = [pre.euler_ EXCEPT ![op.i] = op.v]
          /\ IsApprox(quaternion_, Compose(Angles, axes_, fixed_))
          /\ CountOf("updateAngles") = 0

\* angles that no decomposition returns were given and are in the fields:
\* a first angle of 180 degrees with a middle angle of 90 degrees, after an
\* operation that changed fields and quaternion
C17_Witness ==
    /\ op.name = "setEulerAngles"
    /\ ~op.normalize
    /\ op.euler = <<2, 1, 0>>
    /\ euler_ = <<180, 90, 0>>
    /\ pre.euler_ # euler_
    /\ quaternion_ # pre.quaternion_

(***************************************************************************)
(* C18.  A text edit with more than three ';'-separated values after the   *)
(* optional axes token (here: without a token) is rejected as one with     *)
(* fewer than three is: it returns false, changes nothing and emits        *)
(* nothing.                                                                *)
(* Fails: line 188 rejects only fewer than three pieces; lines 192-196     *)
(* read the first three and ignore the rest.                               *)
(***************************************************************************)
C18_ExactlyThreeValues ==
    (op.name = "setValue" /\ ~op.text.hasSpec /\ Len(op.text.parts) > 3)
    => (ret = "false" /\ EulerUnchanged /\ NoSignal)

\* the part of C18 that holds: fewer than three values, or a value among the
\* first three that is no number, are rejected
C18_FewerOrNotNumeric ==
    (op.name = "setValue" /\ ~op.text.hasSpec /\ ~AnglesOk(op.text.parts))
    => (ret = "false" /\ EulerUnchanged /\ NoSignal)

\* the first of the three axis characters of spec that is none of x, y, z
Offender(spec) ==
    LET pc == FramePrefix(spec)[2]
    IN  IF pc[1] \notin {"x", "y", "z"} THEN pc[1]
        ELSE IF pc[2] \notin {"x", "y", "z"} THEN pc[2]
        ELSE pc[3]

(***************************************************************************)
(* C19.  When setEulerAxes rejects a specification for an axis character   *)
(* outside x, y, z, the exception names that character, in whichever of    *)
(* the three positions it is.                                              *)
(* Stated for the runs in which the reads through pc return sAxes.         *)
(* Fails: the exception thrown at line 155 is built from the first axis   *)
(* character, pc[0], not from pc[i].                                       *)
(***************************************************************************)
C19_NamesOffendingChar ==
    (op.name = "setEulerAxes" /\ intact /\ thrown.kind = "char")
    => thrown.ch = Offender(op.axes_spec)

\* the part of C19 that holds: the exception names the first axis character,
\* which is the offending one when the first position is at fault
C19_NamesFirstChar ==
    (op.name = "setEulerAxes" /\ intact /\ thrown.kind = "char")
    => thrown.ch = FramePrefix(op.axes_spec)[2][1]

\* the text the display-authority flag selects from the current children
SelectedText ==
    IF show_euler_string_
    THEN value_
    ELSE [kind |-> "quat", axes |-> <<>>, e |-> <<0, 0, 0>>, q |-> quaternion_property_]

(***************************************************************************)
(* C20.  Whenever no update is in progress, the composite editor's text is *)
(* the Euler editor's current text when the display-authority flag is      *)
(* "Euler", and "quat: " with the quaternion field's current text when it  *)
(* is "quaternion".                                                        *)
(* Stated for the runs in which the reads through pc return sAxes.         *)
(* Fails: quaternionChanged is emitted at line 113, before the Euler       *)
(* editor renews its own text at line 115, so the updateString that        *)
(* updateFromEuler runs reads the Euler text of before the change; and     *)
(* RotationProperty::setQuaternion and every Euler change that emits no    *)
(* quaternionChanged run no updateString at all.                           *)
(***************************************************************************)
C20_DisplayText ==
    (intact /\ NoUpdateInProgress) => string_ = SelectedText

\* the part of C20 that holds: the text is current after construction and
\* after an edit of the quaternion field that reached setQuaternion
C20_WhenRefreshed ==
    (\/ op.name = "constructor"
     \/ op.name = "editQuaternion" /\ CountOf("Rotation::setQuaternion") > 0)
    => string_ = SelectedText

====
